---- MODULE Spec2Model ----
(***************************************************************************)
(* Hierarchical role-based access control in front of a task store         *)
(* (src/Rbac.rs).  The three tables the handlers read and write (roles,    *)
(* permissions, tasks) are the state; check_permission is the single SQL   *)
(* statement of lines 48-67, evaluated against one snapshot of roles and   *)
(* permissions; each handler is a check step followed by a write step,     *)
(* with the administrative writes of the role graph and the permission     *)
(* index interleaving freely between the two.                              *)
(***************************************************************************)
EXTENDS Integers, FiniteSets, Sequences, TLC

\* ---------------------------------------------------------------- bounds
MaxRole == 3
MaxTasks == 2
\* Rows over the three tables together, deleted tasks included.
MaxRows == 4

RoleIds == 1..MaxRole
TaskIds == 1..MaxTasks

\* roles.parent_id is Option<i32>: NoParent stands for NULL (None).
NoParent == 0

\* The action strings the three handlers pass to check_permission.
Actions == {"create_task", "edit_task", "delete_task"}

\* The payloads: (title, description).
Drafts == {<<"t1", "d1">>, <<"t2", "d2">>}

\* A response that carries no Task body.
NoTask == [id |-> 0, title |-> "", description |-> "", owner_id |-> 0]
NoCall == [kind |-> "none", role_id |-> 0, task_id |-> 0, title |-> "", description |-> ""]

VARIABLES
    roles,        \* table roles: id -> parent_id (NoParent = NULL)
    permissions,  \* table permissions: the set of (role_id, action) rows
    tasks,        \* table tasks: id -> [title, description, owner_id]
    nextTaskId,   \* the serial behind tasks.id
    pc,           \* position of the handler in flight
    call,         \* the handler in flight and the inputs it has read so far
    allowed,      \* what check_permission returned to the handler
    resp,         \* the handler's result
    window        \* history: the decisions that held at some moment of the check in flight

vars == <<roles, permissions, tasks, nextTaskId, pc, call, allowed, resp, window>>

\* Rows stored or about to be stored.
Rows ==
    Cardinality(DOMAIN roles) + Cardinality(permissions) + (nextTaskId - 1)
    + (IF pc \in {"check", "act"} /\ call.kind = "create_task" THEN 1 ELSE 0)

\* ------------------------------------------------- check_permission (SQL)
\* The join of the recursive term turned round (r.parent_id = rh.id): it
\* walks to the children.
RecursiveTerm_children(rolesTbl, work) ==
    {r \in DOMAIN rolesTbl : \E rh \in work : rolesTbl[r] = rh}

\* One iteration of the recursive term: the roles joined to the working
\* table on r.id = rh.parent_id.  A NULL parent_id joins nothing.
RecursiveTerm(rolesTbl, work) ==
    {r \in DOMAIN rolesTbl : \E rh \in work : rolesTbl[rh] = r}

\* WITH RECURSIVE ... UNION ALL: iterate until the working table is empty,
\* accumulating every row.  UNION ALL drops no duplicates, so on a cyclic
\* parent relation the working table never empties; a working table that is
\* still non-empty after more iterations than there are roles has revisited
\* a role and the evaluation does not terminate.
RECURSIVE role_hierarchy_iter(_, _, _, _)
role_hierarchy_iter(rolesTbl, work, acc, fuel) ==
    IF work = {} THEN [terminates |-> TRUE, rows |-> acc]
    ELSE IF fuel = 0 THEN [terminates |-> FALSE, rows |-> acc \cup work]
    ELSE role_hierarchy_iter(rolesTbl, RecursiveTerm(rolesTbl, work), acc \cup work, fuel - 1)

\* The anchor row alone, without the recursive term.
role_hierarchy_anchor(rolesTbl, role_id) ==
    [terminates |-> TRUE, rows |-> {r \in DOMAIN rolesTbl : r = role_id}]

role_hierarchy(rolesTbl, role_id) ==
    role_hierarchy_iter(rolesTbl, {r \in DOMAIN rolesTbl : r = role_id}, {},
                        Cardinality(DOMAIN rolesTbl) + 1)

\* The statement without WHERE p.action = $2.
check_permission_any_action(rolesTbl, permsTbl, role_id, action) ==
    LET rh == role_hierarchy(rolesTbl, role_id)
        hit == \E p \in permsTbl : p[1] \in rh.rows
    IN  IF rh.terminates THEN {IF hit THEN "true" ELSE "false"}
        ELSE {"diverges"} \cup (IF hit THEN {"true"} ELSE {})

\* SELECT 1 FROM permissions p JOIN role_hierarchy rh ON p.role_id = rh.id
\* WHERE p.action = $2 LIMIT 1, then result.is_some().
\* The set of outcomes the statement can have.  When the recursion does not
\* terminate the statement either never returns ("diverges"), or, under a
\* plan that pulls role_hierarchy row by row, LIMIT 1 stops it at the first
\* matching row and it returns true.
check_permission(rolesTbl, permsTbl, role_id, action) ==
    LET rh == role_hierarchy(rolesTbl, role_id)
        hit == \E p \in permsTbl : p[1] \in rh.rows /\ p[2] = action
    IN  IF rh.terminates THEN {IF hit THEN "true" ELSE "false"}
        ELSE {"diverges"} \cup (IF hit THEN {"true"} ELSE {})

\* ----------------------------------------------------------- statements
\* The INSERT with $1 and $2 bound the other way round.
InsertTask_swapped(tbl, id, title, description, owner_id) ==
    [i \in DOMAIN tbl \cup {id} |->
        IF i = id THEN [title |-> description, description |-> title, owner_id |-> owner_id]
        ELSE tbl[i]]

\* INSERT INTO tasks (title, description, owner_id) VALUES ($1, $2, $3)
InsertTask(tbl, id, title, description, owner_id) ==
    [i \in DOMAIN tbl \cup {id} |->
        IF i = id THEN [title |-> title, description |-> description, owner_id |-> owner_id]
        ELSE tbl[i]]

\* The UPDATE without its WHERE clause.
UpdateTask_every_row(tbl, id, title, description) ==
    [i \in DOMAIN tbl |-> [tbl[i] EXCEPT !.title = title, !.description = description]]

\* UPDATE tasks SET title = $1, description = $2 WHERE id = $3
UpdateTask(tbl, id, title, description) ==
    [i \in DOMAIN tbl |->
        IF i = id THEN [tbl[i] EXCEPT !.title = title, !.description = description]
        ELSE tbl[i]]

\* DELETE FROM tasks WHERE id = $1
DeleteTask(tbl, id) == [i \in DOMAIN tbl \ {id} |-> tbl[i]]

\* RETURNING id, title, description, owner_id
Returning(tbl, id) ==
    [id |-> id, title |-> tbl[id].title, description |-> tbl[id].description,
     owner_id |-> tbl[id].owner_id]

\* The action each handler checks.
ActionOf(kind) ==
    CASE kind = "create_task" -> "create_task"
      [] kind = "update_task" -> "edit_task"
      [] kind = "delete_task" -> "delete_task"

\* -------------------------------------------------- history for the window
\* The decision that holds in one state of the role graph and the
\* permission index: the OR of the direct grants over the roles reachable
\* from role_id through parent links.
Reach(rolesTbl, role_id) ==
    LET step(S) == (S \cup {rolesTbl[r] : r \in S}) \ {NoParent}
        RECURSIVE close(_, _)
        close(S, n) == IF n = 0 THEN S ELSE close(step(S) \cap DOMAIN rolesTbl, n - 1)
    IN  close({role_id} \cap DOMAIN rolesTbl, MaxRole)

Holds(rolesTbl, permsTbl, role_id, action) ==
    \E r \in Reach(rolesTbl, role_id) : <<r, action>> \in permsTbl

InFlight == pc \in {"check"}

WindowAfter(rolesTbl, permsTbl) ==
    IF InFlight
    THEN window \cup {Holds(rolesTbl, permsTbl, call.role_id, ActionOf(call.kind))}
    ELSE window

\* ------------------------------------------------------------- handlers
\* A request is routed to a handler: role_id is payload.owner_id for
\* create_task and update_task, the user_id path segment for delete_task.
\* The rest of the request (task_id, title, description) is not read before
\* the handler's statement binds it, and is drawn there.
Receive(kind, role_id) ==
    /\ pc \in {"done", "diverged"}
    /\ kind = "create_task" => nextTaskId <= MaxTasks /\ Rows < MaxRows
    /\ call' = [NoCall EXCEPT !.kind = kind, !.role_id = role_id]
    /\ pc' = "check"
    /\ allowed' = FALSE
    /\ resp' = [status |-> "none", body |-> NoTask]
    /\ window' = {Holds(roles, permissions, role_id, ActionOf(kind))}
    /\ UNCHANGED <<roles, permissions, tasks, nextTaskId>>

\* The handler without the early return: a refused check goes on to the write.
Check_no_return ==
    /\ pc = "check"
    /\ \E outcome \in check_permission(roles, permissions, call.role_id, ActionOf(call.kind)) :
         \/ /\ outcome = "diverges"
            /\ pc' = "diverged"
            /\ UNCHANGED allowed
         \/ /\ outcome \in {"true", "false"}
            /\ pc' = "act"
            /\ allowed' = (outcome = "true")
    /\ window' = {}
    /\ UNCHANGED <<roles, permissions, tasks, nextTaskId, call, resp>>

\* if !check_permission(..).await { return Err(StatusCode::FORBIDDEN); }
Check ==
    /\ pc = "check"
    /\ \E outcome \in check_permission(roles, permissions, call.role_id, ActionOf(call.kind)) :
         \/ /\ outcome = "diverges"
            /\ pc' = "diverged"
            /\ UNCHANGED <<allowed, resp>>
         \/ /\ outcome = "false"
            /\ pc' = "done"
            /\ allowed' = FALSE
            /\ resp' = [status |-> "FORBIDDEN", body |-> NoTask]
         \/ /\ outcome = "true"
            /\ pc' = "act"
            /\ allowed' = TRUE
            /\ UNCHANGED resp
    /\ window' = {}
    /\ UNCHANGED <<roles, permissions, tasks, nextTaskId, call>>

\* The INSERT of create_task; title and description are the payload's.
create_task(title, description) ==
    /\ pc = "act" /\ call.kind = "create_task"
    /\ tasks' = InsertTask(tasks, nextTaskId, title, description, call.role_id)
    /\ nextTaskId' = nextTaskId + 1
    /\ resp' = [status |-> "OK", body |-> Returning(tasks', nextTaskId)]
    /\ pc' = "done"
    /\ call' = [call EXCEPT !.title = title, !.description = description]
    /\ UNCHANGED <<roles, permissions, allowed, window>>

\* The UPDATE of update_task.  fetch_one on a statement that returned no
\* row is Err(RowNotFound), which map_err turns into INTERNAL_SERVER_ERROR.
update_task(task_id, title, description) ==
    /\ pc = "act" /\ call.kind = "update_task"
    /\ tasks' = UpdateTask(tasks, task_id, title, description)
    /\ resp' = IF task_id \in DOMAIN tasks
               THEN [status |-> "OK", body |-> Returning(tasks', task_id)]
               ELSE [status |-> "INTERNAL_SERVER_ERROR", body |-> NoTask]
    /\ pc' = "done"
    /\ call' = [call EXCEPT !.task_id = task_id, !.title = title, !.description = description]
    /\ UNCHANGED <<roles, permissions, nextTaskId, allowed, window>>

\* The DELETE of delete_task.  execute on a statement that matched no row
\* is Ok with rows_affected = 0, which the handler does not look at.
delete_task(task_id) ==
    /\ pc = "act" /\ call.kind = "delete_task"
    /\ tasks' = DeleteTask(tasks, task_id)
    /\ resp' = [status |-> "NO_CONTENT", body |-> NoTask]
    /\ pc' = "done"
    /\ call' = [call EXCEPT !.task_id = task_id]
    /\ UNCHANGED <<roles, permissions, nextTaskId, allowed, window>>

\* ------------------------------------------- administrative collaborator
\* addRole(id, parentId?).  Ids are handed out in order, as a serial column
\* does, so the id is never a duplicate; parentId may name a role that is
\* added later, which is how A -> B -> A is constructed.
addRole(parentId) ==
    LET id == Cardinality(DOMAIN roles) + 1 IN
    /\ id \in RoleIds
    /\ Rows < MaxRows
    /\ roles' = [r \in DOMAIN roles \cup {id} |-> IF r = id THEN parentId ELSE roles[r]]
    /\ window' = WindowAfter(roles', permissions)
    /\ UNCHANGED <<permissions, tasks, nextTaskId, pc, call, allowed, resp>>

\* A grant that flips the pair instead of setting it.
GrantRows_toggle(permsTbl, roleId, action) ==
    IF <<roleId, action>> \in permsTbl THEN permsTbl \ {<<roleId, action>>}
    ELSE permsTbl \cup {<<roleId, action>>}

GrantRows(permsTbl, roleId, action) == permsTbl \cup {<<roleId, action>>}

RevokeRows(permsTbl, roleId, action) == permsTbl \ {<<roleId, action>>}

\* grant(roleId, action): fails with UnknownRole if roleId does not exist.
grant(roleId, action) ==
    /\ roleId \in DOMAIN roles
    /\ <<roleId, action>> \notin permissions => Rows < MaxRows
    /\ permissions' = GrantRows(permissions, roleId, action)
    /\ window' = WindowAfter(roles, permissions')
    /\ UNCHANGED <<roles, tasks, nextTaskId, pc, call, allowed, resp>>

revoke(roleId, action) ==
    /\ permissions' = RevokeRows(permissions, roleId, action)
    /\ window' = WindowAfter(roles, permissions')
    /\ UNCHANGED <<roles, tasks, nextTaskId, pc, call, allowed, resp>>

\* ---------------------------------------------------------- specification
Init ==
    /\ roles = <<>>
    /\ permissions = {}
    /\ tasks = <<>>
    /\ nextTaskId = 1
    /\ pc = "done"
    /\ call = NoCall
    /\ allowed = FALSE
    /\ resp = [status |-> "none", body |-> NoTask]
    /\ window = {}

Next ==
    \/ \E kind \in {"create_task", "update_task", "delete_task"}, role_id \in RoleIds :
            Receive(kind, role_id)
    \/ Check
    \/ \E draft \in Drafts : create_task(draft[1], draft[2])
    \/ \E task_id \in TaskIds, draft \in Drafts : update_task(task_id, draft[1], draft[2])
    \/ \E task_id \in TaskIds : delete_task(task_id)
    \/ \E parentId \in RoleIds \cup {NoParent} : addRole(parentId)
    \/ \E roleId \in RoleIds, action \in Actions : grant(roleId, action)
    \/ \E roleId \in RoleIds, action \in Actions : revoke(roleId, action)

Spec == Init /\ [][Next]_vars

\* ------------------------------------------------------------ properties
\* The ancestor chain of r read off the parent links: r, its parent, ... as
\* far as the links lead to stored roles, at most MaxRole long.
RECURSIVE AncestorChain(_, _, _)
AncestorChain(rolesTbl, r, n) ==
    IF n = 0 \/ r \notin DOMAIN rolesTbl THEN <<>>
    ELSE <<r>> \o AncestorChain(rolesTbl, rolesTbl[r], n - 1)

ChainOf(r) == AncestorChain(roles, r, MaxRole)

SeqSet(c) == {c[i] : i \in 1..Len(c)}

ChainSet(r) == SeqSet(ChainOf(r))

\* The chain c ends at a root: every link led to a stored role and the last
\* one has no parent.
RootChain(c) == c # <<>> /\ roles[c[Len(c)]] = NoParent

EndsAtRoot(r) == RootChain(ChainOf(r))

\* Following parent links from r comes back to a role already passed.
OnCycle(r) ==
    LET c == ChainOf(r) IN c # <<>> /\ roles[c[Len(c)]] \in SeqSet(c)

Decision == check_permission(roles, permissions, call.role_id, ActionOf(call.kind))

\* The check of the handler in flight returns in this step.
CheckReturns == pc = "check" /\ pc' # "check"

\* The handler's statement runs in this step.
Acts(kind) == pc = "act" /\ call.kind = kind /\ pc' = "done"

Row(title, description, owner_id) ==
    [title |-> title, description |-> description, owner_id |-> owner_id]

\* C1: a handler whose permission check returns false ends with FORBIDDEN in
\* that very step with the task store untouched, and the task store only
\* ever changes in the write step of a handler whose check returned true.
C1_CheckThenAct ==
    [][/\ (CheckReturns /\ Decision = {"false"}) =>
            /\ pc' = "done"
            /\ resp'.status = "FORBIDDEN"
            /\ tasks' = tasks /\ nextTaskId' = nextTaskId
       /\ (tasks' # tasks \/ nextTaskId' # nextTaskId) => (pc = "act" /\ allowed)]_vars

C1_Witness ==
    /\ pc = "done" /\ resp.status = "FORBIDDEN"
    /\ call.kind = "create_task"
    /\ tasks # <<>>

\* C2: when the chain of the role a handler checks ends at a root and some
\* role of the chain holds a direct grant of the action, the check returns
\* true and the handler goes on to its statement.
C2_Transitivity ==
    [][(/\ CheckReturns
        /\ EndsAtRoot(call.role_id)
        /\ \E p \in ChainSet(call.role_id) : <<p, ActionOf(call.kind)>> \in permissions)
        => (pc' = "act" /\ allowed')]_vars

\* A handler was let through for a role two links below the only grant.
C2_Witness ==
    /\ pc = "act"
    /\ Len(ChainOf(call.role_id)) = 3
    /\ EndsAtRoot(call.role_id)
    /\ permissions = {<<ChainOf(call.role_id)[3], ActionOf(call.kind)>>}

\* C3: a check returns true for a role and an action only if some role of
\* that role's own chain holds a direct grant of exactly that action.
C3_NoLeakage ==
    [][(CheckReturns /\ pc' = "act")
        => \E p \in ChainSet(call.role_id) : <<p, ActionOf(call.kind)>> \in permissions]_vars

\* A stored role was refused an action that a role outside its chain holds,
\* while its own chain holds a different action.
C3_Witness ==
    /\ pc = "done" /\ resp.status = "FORBIDDEN"
    /\ call.role_id \in DOMAIN roles
    /\ \E q \in DOMAIN roles \ ChainSet(call.role_id) :
            <<q, ActionOf(call.kind)>> \in permissions
    /\ \E p \in ChainSet(call.role_id), a \in Actions \ {ActionOf(call.kind)} :
            <<p, a>> \in permissions

\* C4: a check for a role whose parent links run into a cycle returns, and
\* returns CyclicHierarchy.
C4_CycleDetected ==
    [][(CheckReturns /\ OnCycle(call.role_id))
        => (pc' = "done" /\ resp'.status = "CyclicHierarchy")]_vars

\* C5: a check for a role that is not stored ends the handler with
\* UnknownRole, never with FORBIDDEN.
C5_UnknownRole ==
    [][(CheckReturns /\ call.role_id \notin DOMAIN roles)
        => (pc' = "done" /\ resp'.status = "UnknownRole")]_vars

\* C6: a permitted update_task or delete_task of a task id that is not
\* stored ends with NotFound and leaves the task store unchanged.
C6_NotFound ==
    [][((Acts("update_task") \/ Acts("delete_task")) /\ call'.task_id \notin DOMAIN tasks)
        => (resp'.status = "NotFound" /\ tasks' = tasks)]_vars

C8_Idempotent ==
    \A r \in RoleIds, a \in Actions :
        /\ GrantRows(GrantRows(permissions, r, a), r, a) = GrantRows(permissions, r, a)
        /\ <<r, a>> \in permissions => GrantRows(permissions, r, a) = permissions
        /\ <<r, a>> \notin permissions => RevokeRows(permissions, r, a) = permissions
        /\ RevokeRows(RevokeRows(permissions, r, a), r, a) = RevokeRows(permissions, r, a)

C8_Witness ==
    /\ Cardinality(permissions) = 2
    /\ \E r \in DOMAIN roles, a \in Actions : <<r, a>> \notin permissions

\* C9: the write step of a permitted create_task adds exactly one task, with
\* the payload's title and description and the acting role as owner, returns
\* that task, and leaves every stored task as it was.
C9_PermittedCreate ==
    [][Acts("create_task") =>
        \E id \in TaskIds \ DOMAIN tasks :
            /\ DOMAIN tasks' = DOMAIN tasks \cup {id}
            /\ tasks'[id] = Row(call'.title, call'.description, call.role_id)
            /\ resp' = [status |-> "OK",
                        body |-> [id |-> id, title |-> call'.title,
                                  description |-> call'.description,
                                  owner_id |-> call.role_id]]
            /\ \A i \in DOMAIN tasks : tasks'[i] = tasks[i]]_vars

C9_Witness ==
    /\ pc = "done" /\ call.kind = "create_task" /\ resp.status = "OK"
    /\ DOMAIN tasks = {1, 2}
    /\ tasks[1].title # tasks[2].title

\* C10: the write step of a permitted update_task of a stored task sets that
\* task's title and description to the payload's, keeps its id and owner_id
\* whatever role the payload names, and leaves every other task as it was.
C10_UpdateFrame ==
    [][(Acts("update_task") /\ call'.task_id \in DOMAIN tasks) =>
        /\ DOMAIN tasks' = DOMAIN tasks
        /\ tasks'[call'.task_id] =
              Row(call'.title, call'.description, tasks[call'.task_id].owner_id)
        /\ resp'.body.id = call'.task_id
        /\ resp'.body.owner_id = tasks[call'.task_id].owner_id
        /\ \A i \in DOMAIN tasks \ {call'.task_id} : tasks'[i] = tasks[i]]_vars

\* An update went through under a role that is not the stored owner.
C10_Witness ==
    /\ pc = "done" /\ call.kind = "update_task" /\ resp.status = "OK"
    /\ call.task_id \in DOMAIN tasks
    /\ tasks[call.task_id].owner_id # call.role_id
    /\ tasks[call.task_id].title = call.title

====
